---- MODULE Spec2Model ----
(***************************************************************************)
(* Model of the startup-dose-api backend:                                  *)
(*   - the media publisher (package instagram): Client.PublishPost with    *)
(*     createMediaContainer, waitForContainerReady and publishContainer;   *)
(*   - the generation orchestrator (package handler):                      *)
(*     GenerateCompaniesHandler with its cover-image fallback chain;       *)
(*   - the latest-company lookup: CompanyLatestHandler and                 *)
(*     CompanyRepository.GetLatest;                                        *)
(*   - the functions generateCompanyFromAI, generateSlug and               *)
(*     truncateCaption, each applied to one argument.                      *)
(* Strings built with fmt.Sprintf / fmt.Errorf are sequences of tokens, so *)
(* that "the message contains X" is a statement about the tokens.          *)
(***************************************************************************)
EXTENDS Integers, Sequences, FiniteSets, TLC

VARIABLES
    \* ---- media publisher: one PublishPost run on one Client ----
    userID,        \* Client.userID
    accessToken,   \* Client.accessToken
    apiVersion,    \* Client.apiVersion
    pc,            \* position of the PublishPost run
    ctxDone,       \* the caller's context is done (cancelled or past its deadline)
    ctxErr,        \* ctx.Err() once the context is done
    attempt,       \* loop variable of waitForContainerReady
    containerID,   \* local containerID of PublishPost
    lastStatus,    \* result.StatusCode of the latest parsed status response
    nInProgress,   \* IN_PROGRESS responses handled so far
    nUnknown,      \* unrecognized status responses handled so far
    calls,         \* requests handed to httpClient.Do, in order; sent: it left the client
    createResp,    \* what the create request was answered with
    publishResp,   \* what the publish request was answered with
    result,        \* the *PublishResult returned
    retErr,        \* the error returned beside it
    delays,        \* calls of time.Sleep(containerPollDelay) that have returned
    statusResp,    \* what the latest status request was answered with
    \* ---- generation orchestrator: one GenerateCompaniesHandler run ----
    gpc,           \* position of the handler run
    method,        \* r.Method
    env,           \* os.Getenv values read by the handler
    dbClient,      \* database.GetClient() is non-nil
    companyData,   \* *CompanyFromAI returned by generateCompanyFromAI
    slug,          \* generateSlug(companyData.Name)
    coverImageURL, \* local coverImageURL
    chain,         \* how the cover-image chain ended
    companyMap,    \* the map given to InsertMap
    insertOutcome, \* how InsertMap ended
    gcalls,        \* outbound calls of the run, in order
    response,      \* status code and body written to the ResponseWriter
    aiErr,         \* the error generateCompanyFromAI returned ("nil": none)
    gctxDone,      \* r.Context() is done: the caller of the run has gone away
    blobs,         \* keys of the objects in the bucket
    \* ---- latest-company lookup: one CompanyLatestHandler run ----
    store,         \* rows of the companies table
    queryOutcome,  \* how the query of GetLatest ended
    \* ---- a single application of a pure function ----
    fpc,           \* which function is applied, "done" once it has returned
    fIn,           \* its argument
    fOut,          \* its return value
    \* ---- several runs side by side ----
    runs,          \* the local variables of each run
    clock,         \* time.Now().Unix()
    \* ---- package database: InitSupabase ----
    onceDone,      \* once.Do has run its function
    initLog        \* the InitSupabase calls made: configuration and error returned

pubVars == <<userID, accessToken, apiVersion, pc, ctxDone, ctxErr, attempt,
             containerID, lastStatus, nInProgress, nUnknown, calls, createResp,
             publishResp, result, retErr, delays, statusResp>>
genVars == <<gpc, method, env, dbClient, companyData, slug, coverImageURL, chain,
             companyMap, insertOutcome, gcalls, response, aiErr, gctxDone, blobs>>
concVars == <<runs, clock, onceDone, initLog>>
auxVars == <<store, queryOutcome, fpc, fIn, fOut, concVars>>
vars == <<pubVars, genVars, auxVars>>

-----------------------------------------------------------------------------
(* Constants of package instagram *)

graphAPIBaseURL == "https://graph.facebook.com"
defaultAPIVersion == "v23.0"
maxPollAttempts == 15

(* Values the environment can supply *)

UserIDs == {"", "17841400000000000"}
AccessTokens == {"", "EAAG-secret-token"}
\* "%zz" is an invalid URL escape: url.Parse rejects an endpoint holding it
ApiVersions == {"", "%zz"}
ContainerIDs == {"c1", "c2"}
MediaIDs == {"m1", "m2"}
Statuses == {"FINISHED", "ERROR", "EXPIRED", "IN_PROGRESS", "PUBLISHED"}
CtxErrs == {"context canceled", "context deadline exceeded"}
NoResponse == [kind |-> "none"]
NoResult == [Posted |-> FALSE, MediaID |-> "", Error |-> <<>>]
NoQuery == [exec |-> "none", rows |-> <<>>, err |-> <<>>]

Contains(msg, tok) == \E i \in 1..Len(msg) : msg[i] = tok

-----------------------------------------------------------------------------
(* net/http as used by the client *)

\* http.NewRequestWithContext fails when the URL does not parse
NewRequestOK(url) == ~Contains(url, "%zz")

\* *url.Error as printed by %v: Op "URL": Err
UrlError(op, url, cause) == <<op, " \"">> \o url \o <<"\": ", cause>>

\* Bodies a remote call can produce; "cancelled" is a request that left the
\* client and was then aborted by the caller's context.
TransportFailures == {[kind |-> "transport_error", cause |-> "dial tcp: i/o timeout"]}
                     \cup {[kind |-> "cancelled", cause |-> c] : c \in CtxErrs}
BodyFailures == {[kind |-> "read_error"], [kind |-> "parse_error"]}

\* Client.Do hands the request to the transport only while the request's
\* context is not done; otherwise it returns the context's error.
DoSends == ~ctxDone

ApiError == <<"API error: ", "Invalid OAuth access token.", " (code: ", "190", ")">>

-----------------------------------------------------------------------------
(* Client *)

NewClient(u, t, v) ==
    [userID |-> u, accessToken |-> t,
     apiVersion |-> IF v = "" THEN defaultAPIVersion ELSE v]

IsConfigured == userID # "" /\ accessToken # ""

GenIdle ==
    /\ gpc = "idle"
    /\ method = ""
    /\ env = [k \in {} |-> ""]
    /\ dbClient = FALSE
    /\ companyData = [k \in {} |-> ""]
    /\ slug = ""
    /\ coverImageURL = ""
    /\ chain = "none"
    /\ companyMap = [k \in {} |-> ""]
    /\ insertOutcome = "none"
    /\ gcalls = <<>>
    /\ response = [status |-> 0, body |-> "none"]
    /\ aiErr = "unset"
    /\ gctxDone = FALSE
    /\ blobs = {}

ConcIdle ==
    /\ runs = <<>>
    /\ clock = 0
    /\ onceDone = FALSE
    /\ initLog = <<>>

AuxIdle ==
    /\ store = {}
    /\ queryOutcome = NoQuery
    /\ fpc = "idle"
    /\ fIn = <<>>
    /\ fOut = <<>>
    /\ ConcIdle

Init ==
    /\ AuxIdle
    /\ \E u \in UserIDs, t \in AccessTokens, v \in ApiVersions :
          LET c == NewClient(u, t, v) IN
          /\ userID = c.userID
          /\ accessToken = c.accessToken
          /\ apiVersion = c.apiVersion
    /\ pc = "start"
    /\ ctxDone = FALSE
    /\ ctxErr = "nil"
    /\ attempt = 0
    /\ containerID = ""
    /\ lastStatus = ""
    /\ nInProgress = 0
    /\ nUnknown = 0
    /\ calls = <<>>
    /\ createResp = NoResponse
    /\ publishResp = NoResponse
    /\ result = NoResult
    /\ retErr = "unset"
    /\ delays = 0
    /\ statusResp = NoResponse
    /\ GenIdle

\* The caller cancels the context, or its deadline passes, while the run is on.
Cancel ==
    /\ pc # "done"
    /\ ~ctxDone
    /\ ctxDone' = TRUE
    /\ \E e \in CtxErrs : ctxErr' = e
    /\ UNCHANGED <<userID, accessToken, apiVersion, pc, attempt, containerID,
                   lastStatus, nInProgress, nUnknown, calls, createResp, publishResp,
                   result, retErr>>
    /\ UNCHANGED <<delays, statusResp, genVars, auxVars>>

\* Mutant: a failure is also returned as a non-nil error
Return_hard(r) ==
    /\ pc' = "done"
    /\ result' = r
    /\ retErr' = IF r.Posted THEN "nil" ELSE "error"

Return(r) ==
    /\ pc' = "done"
    /\ result' = r
    /\ retErr' = "nil"

Failure(prefix, e) == [Posted |-> FALSE, MediaID |-> "", Error |-> <<prefix>> \o e]

\* PublishPost up to the call of createMediaContainer
PublishPostEnter ==
    /\ pc = "start"
    /\ IF ~IsConfigured
       THEN Return([Posted |-> FALSE, MediaID |-> "",
                    Error |-> <<"Instagram client not configured">>])
       ELSE pc' = "create" /\ UNCHANGED <<result, retErr>>
    /\ UNCHANGED <<userID, accessToken, apiVersion, ctxDone, ctxErr, attempt,
                   containerID, lastStatus, nInProgress, nUnknown, calls, createResp,
                   publishResp>>
    /\ UNCHANGED <<delays, statusResp, genVars, auxVars>>

-----------------------------------------------------------------------------
(* createMediaContainer *)

CreateResponses ==
    TransportFailures \cup BodyFailures
    \cup {[kind |-> "json", error |-> e, id |-> i] :
             e \in BOOLEAN, i \in ContainerIDs \cup {""}}

CreateEndpoint == <<graphAPIBaseURL, "/", apiVersion, "/", userID, "/media">>

\* Mutant: the check for a missing container id is dropped
createMediaContainerErr_noIdCheck(resp) ==
    CASE resp.kind \in {"transport_error", "cancelled"} ->
             <<"failed to send request: ">> \o UrlError("Post", CreateEndpoint, resp.cause)
      [] resp.kind = "read_error" -> <<"failed to read response: ", "unexpected EOF">>
      [] resp.kind = "parse_error" -> <<"failed to parse response: ", "invalid character">>
      [] resp.kind = "json" /\ resp.error -> ApiError
      [] OTHER -> <<>>

\* The error createMediaContainer returns for a response (<<>> is nil)
createMediaContainerErr(resp) ==
    CASE resp.kind \in {"transport_error", "cancelled"} ->
             <<"failed to send request: ">> \o UrlError("Post", CreateEndpoint, resp.cause)
      [] resp.kind = "read_error" -> <<"failed to read response: ", "unexpected EOF">>
      [] resp.kind = "parse_error" -> <<"failed to parse response: ", "invalid character">>
      [] resp.kind = "json" /\ resp.error -> ApiError
      [] resp.kind = "json" /\ ~resp.error /\ resp.id = "" -> <<"no container ID returned">>
      [] OTHER -> <<>>

\* Step 1 of PublishPost: createMediaContainer and the check of its error
CreateMediaContainer ==
    /\ pc = "create"
    /\ IF ~NewRequestOK(CreateEndpoint)
       THEN /\ Return(Failure("failed to create media container: ",
                   <<"failed to create request: ">>
                   \o UrlError("parse", CreateEndpoint, "invalid URL escape")))
            /\ UNCHANGED <<ctxDone, ctxErr, containerID, calls, createResp>>
       ELSE IF ~DoSends
       THEN \* Do returns the context's error without sending anything
            /\ Return(Failure("failed to create media container: ",
                   <<"failed to send request: ">>
                   \o UrlError("Post", CreateEndpoint, ctxErr)))
            /\ calls' = Append(calls, [op |-> "create", id |-> "", sent |-> FALSE])
            /\ UNCHANGED <<ctxDone, ctxErr, containerID, createResp>>
       ELSE \E resp \in CreateResponses :
            /\ calls' = Append(calls, [op |-> "create", id |-> "", sent |-> TRUE])
            /\ createResp' = resp
            /\ IF resp.kind = "cancelled"
               THEN ctxDone' = TRUE /\ ctxErr' = resp.cause
               ELSE UNCHANGED <<ctxDone, ctxErr>>
            /\ IF createMediaContainerErr(resp) # <<>>
               THEN /\ Return(Failure("failed to create media container: ",
                                      createMediaContainerErr(resp)))
                    /\ UNCHANGED containerID
               ELSE /\ containerID' = resp.id
                    /\ pc' = "poll"
                    /\ UNCHANGED <<result, retErr>>
    /\ UNCHANGED <<userID, accessToken, apiVersion, attempt, lastStatus,
                   nInProgress, nUnknown, publishResp>>
    /\ UNCHANGED <<delays, statusResp, genVars, auxVars>>

-----------------------------------------------------------------------------
(* waitForContainerReady *)

StatusResponses ==
    TransportFailures \cup BodyFailures
    \cup {[kind |-> "json", error |-> e, status_code |-> s] :
             e \in BOOLEAN, s \in Statuses}

StatusEndpoint ==
    <<graphAPIBaseURL, "/", apiVersion, "/", containerID,
      "?fields=status_code&access_token=", accessToken>>

\* Mutant: the API error envelope of the response is not looked at
statusRequestErr_noApiCheck(resp) ==
    CASE resp.kind \in {"transport_error", "cancelled"} ->
             <<"failed to send request: ">> \o UrlError("Get", StatusEndpoint, resp.cause)
      [] resp.kind = "read_error" -> <<"failed to read response: ", "unexpected EOF">>
      [] resp.kind = "parse_error" -> <<"failed to parse response: ", "invalid character">>
      [] OTHER -> <<>>

\* The error of one status request, before the switch (<<>> is nil)
statusRequestErr(resp) ==
    CASE resp.kind \in {"transport_error", "cancelled"} ->
             <<"failed to send request: ">> \o UrlError("Get", StatusEndpoint, resp.cause)
      [] resp.kind = "read_error" -> <<"failed to read response: ", "unexpected EOF">>
      [] resp.kind = "parse_error" -> <<"failed to parse response: ", "invalid character">>
      [] resp.kind = "json" /\ resp.error -> ApiError
      [] OTHER -> <<>>

\* Mutant: IN_PROGRESS is taken for ready
StatusSwitch_inProgressReady(s) ==
    CASE s = "FINISHED" -> "nil"
      [] s = "ERROR" -> "container processing failed"
      [] s = "EXPIRED" -> "container expired"
      [] s = "IN_PROGRESS" -> "nil"
      [] OTHER -> "continue"

\* Mutant: an unrecognized status is fatal
StatusSwitch_unknownFatal(s) ==
    CASE s = "FINISHED" -> "nil"
      [] s = "ERROR" -> "container processing failed"
      [] s = "EXPIRED" -> "container expired"
      [] s = "IN_PROGRESS" -> "continue"
      [] OTHER -> "unknown container status"

\* Mutant: EXPIRED has no case of its own and polls on
StatusSwitch_expiredContinues(s) ==
    CASE s = "FINISHED" -> "nil"
      [] s = "ERROR" -> "container processing failed"
      [] s = "IN_PROGRESS" -> "continue"
      [] OTHER -> "continue"

\* switch result.StatusCode: "nil" returns nil, "continue" polls on, any
\* other value is the message of the error returned
StatusSwitch(s) ==
    CASE s = "FINISHED" -> "nil"
      [] s = "ERROR" -> "container processing failed"
      [] s = "EXPIRED" -> "container expired"
      [] s = "IN_PROGRESS" -> "continue"
      [] OTHER -> "continue"

\* Mutant: the loop does not look at the context
CtxCheck_never == FALSE

\* select { case <-ctx.Done(): ... default: } at the head of each iteration
CtxCheck == ctxDone

\* Mutant: the loop condition is off by one
PollBudgetLeft_inclusive(a) == a <= maxPollAttempts

\* Loop condition of the polling loop
PollBudgetLeft(a) == a < maxPollAttempts

\* One iteration of the loop up to time.Sleep: the cancellation check, the
\* status request and the switch on the status
PollAttempt ==
    /\ pc = "poll"
    /\ PollBudgetLeft(attempt)
    /\ IF CtxCheck
       THEN /\ Return(Failure("container not ready: ", <<ctxErr>>))
            /\ UNCHANGED <<ctxDone, ctxErr, lastStatus, nInProgress, nUnknown, calls,
                           statusResp>>
       ELSE IF ~NewRequestOK(StatusEndpoint)
       THEN /\ Return(Failure("container not ready: ",
                   <<"failed to create request: ">>
                   \o UrlError("parse", StatusEndpoint, "invalid URL escape")))
            /\ UNCHANGED <<ctxDone, ctxErr, lastStatus, nInProgress, nUnknown, calls,
                           statusResp>>
       ELSE IF ~DoSends
       THEN /\ Return(Failure("container not ready: ",
                   <<"failed to send request: ">>
                   \o UrlError("Get", StatusEndpoint, ctxErr)))
            /\ calls' = Append(calls, [op |-> "status", id |-> containerID, sent |-> FALSE])
            /\ UNCHANGED <<ctxDone, ctxErr, lastStatus, nInProgress, nUnknown, statusResp>>
       ELSE \E resp \in StatusResponses :
            /\ calls' = Append(calls, [op |-> "status", id |-> containerID, sent |-> TRUE])
            /\ statusResp' = resp
            /\ IF resp.kind = "cancelled"
               THEN ctxDone' = TRUE /\ ctxErr' = resp.cause
               ELSE UNCHANGED <<ctxDone, ctxErr>>
            /\ IF statusRequestErr(resp) # <<>>
               THEN /\ Return(Failure("container not ready: ", statusRequestErr(resp)))
                    /\ UNCHANGED <<lastStatus, nInProgress, nUnknown>>
               ELSE /\ lastStatus' = resp.status_code
                    /\ nInProgress' = nInProgress
                                      + (IF resp.status_code = "IN_PROGRESS" THEN 1 ELSE 0)
                    /\ nUnknown' = nUnknown
                                   + (IF resp.status_code
                                           \notin {"FINISHED", "ERROR", "EXPIRED", "IN_PROGRESS"}
                                      THEN 1 ELSE 0)
                    /\ CASE StatusSwitch(resp.status_code) = "nil" ->
                                pc' = "publish" /\ UNCHANGED <<result, retErr>>
                         [] StatusSwitch(resp.status_code) = "continue" ->
                                pc' = "sleep" /\ UNCHANGED <<result, retErr>>
                         [] OTHER ->
                                Return(Failure("container not ready: ",
                                               <<StatusSwitch(resp.status_code)>>))
    /\ UNCHANGED <<userID, accessToken, apiVersion, attempt, containerID, createResp,
                   publishResp>>
    /\ UNCHANGED <<delays, genVars, auxVars>>

\* Mutant: the loop goes on without waiting
Slept_not(d) == d

\* time.Sleep(containerPollDelay) has returned once more
Slept(d) == d + 1

\* time.Sleep(containerPollDelay) and attempt++
PollSleep ==
    /\ pc = "sleep"
    /\ delays' = Slept(delays)
    /\ attempt' = attempt + 1
    /\ pc' = "poll"
    /\ UNCHANGED <<userID, accessToken, apiVersion, ctxDone, ctxErr, containerID,
                   lastStatus, nInProgress, nUnknown, calls, createResp, publishResp,
                   result, retErr>>
    /\ UNCHANGED <<statusResp, genVars, auxVars>>

\* The loop ends without a terminal status
PollExhausted ==
    /\ pc = "poll"
    /\ ~PollBudgetLeft(attempt)
    /\ Return(Failure("container not ready: ",
                      <<"container not ready after ", ToString(maxPollAttempts), " attempts">>))
    /\ UNCHANGED <<userID, accessToken, apiVersion, ctxDone, ctxErr, attempt, containerID,
                   lastStatus, nInProgress, nUnknown, calls, createResp, publishResp>>
    /\ UNCHANGED <<delays, statusResp, genVars, auxVars>>

-----------------------------------------------------------------------------
(* publishContainer *)

PublishResponses ==
    TransportFailures \cup BodyFailures
    \cup {[kind |-> "json", error |-> e, id |-> i] :
             e \in BOOLEAN, i \in MediaIDs \cup {""}}

PublishEndpoint == <<graphAPIBaseURL, "/", apiVersion, "/", userID, "/media_publish">>

\* Mutant: the API error envelope of the publish response is not looked at
publishContainerErr_noApiCheck(resp) ==
    CASE resp.kind \in {"transport_error", "cancelled"} ->
             <<"failed to send request: ">> \o UrlError("Post", PublishEndpoint, resp.cause)
      [] resp.kind = "read_error" -> <<"failed to read response: ", "unexpected EOF">>
      [] resp.kind = "parse_error" -> <<"failed to parse response: ", "invalid character">>
      [] resp.kind = "json" /\ resp.id = "" -> <<"no media ID returned">>
      [] OTHER -> <<>>

\* The error publishContainer returns for a response (<<>> is nil)
publishContainerErr(resp) ==
    CASE resp.kind \in {"transport_error", "cancelled"} ->
             <<"failed to send request: ">> \o UrlError("Post", PublishEndpoint, resp.cause)
      [] resp.kind = "read_error" -> <<"failed to read response: ", "unexpected EOF">>
      [] resp.kind = "parse_error" -> <<"failed to parse response: ", "invalid character">>
      [] resp.kind = "json" /\ resp.error -> ApiError
      [] resp.kind = "json" /\ ~resp.error /\ resp.id = "" -> <<"no media ID returned">>
      [] OTHER -> <<>>

\* Step 3 of PublishPost: publishContainer and the result returned
PublishContainer ==
    /\ pc = "publish"
    /\ IF ~NewRequestOK(PublishEndpoint)
       THEN /\ Return(Failure("failed to publish: ",
                   <<"failed to create request: ">>
                   \o UrlError("parse", PublishEndpoint, "invalid URL escape")))
            /\ UNCHANGED <<ctxDone, ctxErr, calls, publishResp>>
       ELSE IF ~DoSends
       THEN /\ Return(Failure("failed to publish: ",
                   <<"failed to send request: ">>
                   \o UrlError("Post", PublishEndpoint, ctxErr)))
            /\ calls' = Append(calls, [op |-> "publish", id |-> containerID, sent |-> FALSE])
            /\ UNCHANGED <<ctxDone, ctxErr, publishResp>>
       ELSE \E resp \in PublishResponses :
            /\ calls' = Append(calls, [op |-> "publish", id |-> containerID, sent |-> TRUE])
            /\ publishResp' = resp
            /\ IF resp.kind = "cancelled"
               THEN ctxDone' = TRUE /\ ctxErr' = resp.cause
               ELSE UNCHANGED <<ctxDone, ctxErr>>
            /\ IF publishContainerErr(resp) # <<>>
               THEN Return(Failure("failed to publish: ", publishContainerErr(resp)))
               ELSE Return([Posted |-> TRUE, MediaID |-> resp.id, Error |-> <<>>])
    /\ UNCHANGED <<userID, accessToken, apiVersion, attempt, containerID, lastStatus,
                   nInProgress, nUnknown, createResp>>
    /\ UNCHANGED <<delays, statusResp, genVars, auxVars>>

Next ==
    \/ Cancel
    \/ PublishPostEnter
    \/ CreateMediaContainer
    \/ PollAttempt
    \/ PollSleep
    \/ PollExhausted
    \/ PublishContainer

Spec == Init /\ [][Next]_vars

-----------------------------------------------------------------------------
(* Properties of the media publisher *)

CountOp(o) == Cardinality({i \in 1..Len(calls) : calls[i].op = o})
SentOp(o) == Cardinality({i \in 1..Len(calls) : calls[i].op = o /\ calls[i].sent})
NonTerminalSeen == nInProgress + nUnknown
CreateSucceeded ==
    createResp.kind = "json" /\ ~createResp.error /\ createResp.id # ""
CreateFailed ==
    \/ createResp.kind \in {"transport_error", "cancelled", "read_error", "parse_error"}
    \/ createResp.kind = "json" /\ (createResp.error \/ createResp.id = "")
PublishSucceeded ==
    publishResp.kind = "json" /\ ~publishResp.error /\ publishResp.id # ""
RequestFailures ==
    {"failed to create request: ", "failed to send request: ",
     "failed to read response: ", "failed to parse response: ", "API error: "}
Exhaustion == <<"container not ready: ", "container not ready after ", "15", " attempts">>

\* C1: PublishPost never returns a hard failure: the error value returned is
\* nil in every finished run, whatever the create, status and publish calls
\* did, for an unconfigured client and for a cancelled caller; a run that did
\* not post reports posted=false with a non-empty error string.
C1_NoHardFailure ==
    /\ retErr \in {"unset", "nil"}
    /\ pc = "done" =>
          /\ retErr = "nil"
          /\ ~PublishSucceeded => ~result.Posted /\ result.Error # <<>>

C1_Witness ==
    /\ pc = "done"
    /\ ctxDone
    /\ CountOp("status") >= 1
    /\ ~result.Posted
    /\ retErr = "nil"

\* The order of the remote calls of one run: create first, no status call
\* before a successful create, publish last, at most once and only after a
\* status call answered FINISHED.
C2_Sequence ==
    /\ calls # <<>> => calls[1].op = "create"
    /\ \A i \in 2..Len(calls) : calls[i].op # "create"
    /\ \A i \in 1..Len(calls) : calls[i].op = "status" => i > 1 /\ CreateSucceeded
    /\ CountOp("publish") <= 1
    /\ \A i \in 1..Len(calls) :
          calls[i].op = "publish" =>
              /\ i = Len(calls)
              /\ i > 2
              /\ calls[i - 1].op = "status"
              /\ lastStatus = "FINISHED"

\* C2 as stated: the calls of a run are in the order create -> status polls
\* -> publish, and the create request is issued exactly once in every run.
C2_Original ==
    /\ C2_Sequence
    /\ pc = "done" => CountOp("create") = 1

\* C2 (amended): the calls of a run are in the order create -> status polls
\* -> publish; the create request is issued at most once and first, exactly
\* once for a configured client whose endpoint URL parses and never for an
\* unconfigured client; no status call precedes a successful create; the
\* publish request is issued at most once and only after FINISHED.
C2_Amended ==
    /\ C2_Sequence
    /\ CountOp("create") <= 1
    /\ pc \in {"poll", "sleep", "publish"} => CountOp("create") = 1
    /\ pc = "done" =>
          (CountOp("create") = 1 <=> IsConfigured /\ NewRequestOK(CreateEndpoint))

C2_Witness ==
    /\ pc = "done"
    /\ Len(calls) >= 4
    /\ calls[Len(calls)].op = "publish"

\* C3: when the status responses are k-1 non-terminal statuses (IN_PROGRESS
\* or unrecognized, in any mix) followed by FINISHED, 1 <= k <= 15, the run
\* has issued exactly k status calls and goes on to exactly one publish
\* request; a non-terminal status, recognized or not, never ends the run
\* before the 15th attempt.
C3_PollToFinished ==
    /\ lastStatus = "FINISHED" =>
          /\ CountOp("status") = NonTerminalSeen + 1
          /\ NonTerminalSeen + 1 <= 15
          /\ pc \in {"publish", "done"}
          /\ pc = "publish" => CountOp("publish") = 0
          /\ pc = "done" =>
                /\ CountOp("publish") = 1
                /\ calls[Len(calls)].op = "publish"
    /\ lastStatus \notin {"", "FINISHED", "ERROR", "EXPIRED"} =>
          /\ pc \in {"sleep", "poll", "done"}
          /\ CountOp("publish") = 0
          /\ pc = "done" =>
                \/ result.Error[2] \in RequestFailures \cup CtxErrs
                \/ NonTerminalSeen = 15 /\ result.Error = Exhaustion

C3_Witness ==
    /\ pc = "done"
    /\ result.Posted
    /\ NonTerminalSeen = 14
    /\ nUnknown >= 1
    /\ nInProgress >= 2
    /\ CountOp("status") = 15

\* C4: the polling budget is bounded: no run issues more than 15 status
\* calls, and a run whose 15 status responses are all non-terminal ends with
\* posted=false, the error "container not ready after 15 attempts" and no
\* publish call.
C4_BoundedPolling ==
    /\ CountOp("status") <= 15
    /\ NonTerminalSeen <= 15
    /\ NonTerminalSeen = 15 /\ pc = "done" =>
          /\ ~result.Posted
          /\ result.Error = Exhaustion
          /\ CountOp("publish") = 0
          /\ CountOp("status") = 15
    /\ NonTerminalSeen = 15 => pc \in {"sleep", "poll", "done"}

C4_Witness ==
    /\ pc = "done"
    /\ NonTerminalSeen = 15
    /\ result.Error = Exhaustion

\* C5: a status response of ERROR or EXPIRED is terminal on any poll: the run
\* is over at once with posted=false and a descriptive error, the status call
\* that got it is the last call of the run and there is no publish call;
\* ERROR on the first poll leaves exactly one status call.
C5_TerminalFailure ==
    lastStatus \in {"ERROR", "EXPIRED"} =>
        /\ pc = "done"
        /\ ~result.Posted
        /\ result.MediaID = ""
        /\ result.Error = <<"container not ready: ",
                            IF lastStatus = "ERROR" THEN "container processing failed"
                                                    ELSE "container expired">>
        /\ CountOp("publish") = 0
        /\ CountOp("status") = NonTerminalSeen + 1
        /\ calls[Len(calls)].op = "status"

C5_Witness ==
    /\ lastStatus = "EXPIRED"
    /\ NonTerminalSeen = 3
    /\ pc = "done"

\* C6: if container creation fails (transport error, API error payload, or a
\* response without a container identifier), the run ends with posted=false
\* and a descriptive error string and issues no status call and no publish
\* call.
C6_CreateFailure ==
    /\ CreateFailed =>
          /\ pc = "done"
          /\ retErr = "nil"
          /\ ~result.Posted
          /\ Len(result.Error) >= 2
          /\ result.Error[1] = "failed to create media container: "
          /\ CountOp("status") = 0
          /\ CountOp("publish") = 0
    /\ ~CreateSucceeded => CountOp("status") = 0 /\ CountOp("publish") = 0

C6_Witness ==
    /\ pc = "done"
    /\ createResp.kind = "json"
    /\ ~createResp.error
    /\ createResp.id = ""
    /\ result.Error = <<"failed to create media container: ", "no container ID returned">>

\* C7: the PublishResult is consistent in every finished run: posted=true
\* exactly when the publish request returned a non-empty media identifier
\* with no transport error and no API error payload, and then mediaID is that
\* identifier and error is empty; otherwise posted=false, mediaID is empty
\* and error is non-empty.
C7_ResultConsistent ==
    pc = "done" =>
        /\ result.Posted <=> PublishSucceeded
        /\ result.Posted =>
              /\ result.MediaID = publishResp.id
              /\ result.MediaID \in MediaIDs
              /\ result.Error = <<>>
        /\ ~result.Posted => result.MediaID = "" /\ result.Error # <<>>

C7_Witness ==
    /\ pc = "done"
    /\ result.Posted
    /\ result.MediaID = "m2"

-----------------------------------------------------------------------------
(* Generation orchestrator: GenerateCompaniesHandler                        *)
(* A name is a sequence of characters; a URL or an appeal is a sequence of  *)
(* tokens; "" and <<>> are the empty string.                                *)

EnvKeys == {"OPENAI_API_KEY", "AWS_REGION", "AWS_ACCESS_KEY_ID",
            "AWS_SECRET_ACCESS_KEY", "S3_BUCKET_NAME", "SCREENSHOTONE_API_KEY"}
EnvValue(k) ==
    CASE k = "OPENAI_API_KEY" -> "sk-openai-key"
      [] k = "AWS_REGION" -> "us-east-1"
      [] k = "AWS_ACCESS_KEY_ID" -> "AKIA-access-key"
      [] k = "AWS_SECRET_ACCESS_KEY" -> "aws-secret-key"
      [] k = "S3_BUCKET_NAME" -> "dose-bucket"
      [] OTHER -> "screenshot-key"
Environments == {[k \in EnvKeys |-> IF k \in set THEN EnvValue(k) ELSE ""] :
                    set \in SUBSET EnvKeys}
Methods == {"POST", "GET"}

Names == {<<"A", "c", "m", "e", " ", "A", "I", ",", " ", "I", "n", "c", ".">>,
          <<"!", "!">>}
Websites == {<<>>, <<"https://", "acme.io">>, <<"http://", "acme.io">>,
             <<"http://", "https://", "acme.io">>}
CoverImages == {<<>>, <<"https://", "img.example/founders.png">>}
\* Markup of the appeal, character by character
UlOpen == <<"<", "u", "l", ">">>
UlClose == <<"<", "/", "u", "l", ">">>
LiOpen == <<"<", "l", "i", ">">>
LiClose == <<"<", "/", "l", "i", ">">>
\* " <ul><li>Fast</li><li>Small team</li></ul>\n"
Appeals == {<<" ">> \o UlOpen \o LiOpen \o <<"F", "a", "s", "t">> \o LiClose
            \o LiOpen \o <<"S", "m", "a", "l", "l", " ", "t", "e", "a", "m">> \o LiClose
            \o UlClose \o <<"\n">>}
SocialKeys == {"twitter", "linkedin", "facebook", "instagram"}
Timestamps == {"1700000000", "1700000001"}

PubIdle ==
    /\ userID = ""
    /\ accessToken = ""
    /\ apiVersion = defaultAPIVersion
    /\ pc = "idle"
    /\ ctxDone = FALSE
    /\ ctxErr = "nil"
    /\ attempt = 0
    /\ containerID = ""
    /\ lastStatus = ""
    /\ nInProgress = 0
    /\ nUnknown = 0
    /\ calls = <<>>
    /\ createResp = NoResponse
    /\ publishResp = NoResponse
    /\ result = NoResult
    /\ retErr = "unset"
    /\ delays = 0
    /\ statusResp = NoResponse

GenInit ==
    /\ PubIdle
    /\ AuxIdle
    /\ gpc = "start"
    /\ method \in Methods
    /\ env \in Environments
    /\ dbClient \in BOOLEAN
    /\ companyData = [k \in {} |-> ""]
    /\ slug = <<>>
    /\ coverImageURL = <<>>
    /\ chain = "none"
    /\ companyMap = [k \in {} |-> ""]
    /\ insertOutcome = "none"
    /\ gcalls = <<>>
    /\ response = [status |-> 0, body |-> "none"]
    /\ aiErr = "unset"
    /\ gctxDone = FALSE
    /\ blobs = {}

\* An outbound call of the run; ctxDone: r.Context() was done when it started
Call(op, key) == [op |-> op, key |-> key, ctxDone |-> gctxDone]

\* The caller of the run goes away: r.Context() is cancelled
GenCancel ==
    /\ gpc \in {"start", "ai", "chain", "screenshot", "upload", "insert"}
    /\ ~gctxDone
    /\ gctxDone' = TRUE
    /\ UNCHANGED <<gpc, method, env, dbClient, companyData, slug, coverImageURL, chain,
                   companyMap, insertOutcome, gcalls, response, aiErr, blobs>>
    /\ UNCHANGED <<pubVars, auxVars>>

\* WriteHeader(status) and the encoded ErrorResponse
ErrorResponse(status, error, message) ==
    [status |-> status, body |-> [Error |-> error, message |-> message]]

\* The method check and the OPENAI_API_KEY check
GenerateEnter ==
    /\ gpc = "start"
    /\ IF method # "POST"
       THEN /\ gpc' = "done"
            /\ response' = [status |-> 405, body |-> "Method not allowed"]
       ELSE IF env["OPENAI_API_KEY"] = ""
       THEN /\ gpc' = "done"
            /\ response' = ErrorResponse(500, "internal_server_error",
                                         "OpenAI API key not configured")
       ELSE /\ gpc' = "ai"
            /\ UNCHANGED response
    /\ UNCHANGED <<method, env, dbClient, companyData, slug, coverImageURL, chain,
                   companyMap, insertOutcome, gcalls>>
    /\ UNCHANGED <<aiErr, gctxDone, blobs, pubVars, auxVars>>

-----------------------------------------------------------------------------
(* generateSlug *)

LowerOf == ("A" :> "a") @@ ("I" :> "i") @@ ("É" :> "é")
ToLower(name) ==
    [i \in 1..Len(name) |-> IF name[i] \in DOMAIN LowerOf THEN LowerOf[name[i]] ELSE name[i]]

SlugChars == {"a", "b", "c", "d", "e", "f", "g", "h", "i", "j", "k", "l", "m",
              "n", "o", "p", "q", "r", "s", "t", "u", "v", "w", "x", "y", "z",
              "0", "1", "2", "3", "4", "5", "6", "7", "8", "9"}

RECURSIVE DropRun(_)
\* the rest of s after its leading run of characters outside [a-z0-9]
DropRun(s) ==
    IF s = <<>> \/ Head(s) \in SlugChars THEN s ELSE DropRun(Tail(s))

\* Mutant: the pattern is `[^a-z0-9]`, every character is replaced on its own
ReplaceAllString_each(s) ==
    [i \in 1..Len(s) |-> IF s[i] \in SlugChars THEN s[i] ELSE "-"]

RECURSIVE ReplaceAllString(_)
\* regexp `[^a-z0-9]+` replaced by "-"
ReplaceAllString(s) ==
    IF s = <<>> THEN <<>>
    ELSE IF Head(s) \in SlugChars THEN <<Head(s)>> \o ReplaceAllString(Tail(s))
    ELSE <<"-">> \o ReplaceAllString(DropRun(s))

RECURSIVE TrimLeft(_, _)
TrimLeft(s, c) == IF s # <<>> /\ Head(s) = c THEN TrimLeft(Tail(s), c) ELSE s

RECURSIVE TrimRight(_, _)
TrimRight(s, c) ==
    IF s # <<>> /\ s[Len(s)] = c THEN TrimRight(SubSeq(s, 1, Len(s) - 1), c) ELSE s

\* strings.Trim(s, c)
Trim(s, c) == TrimRight(TrimLeft(s, c), c)

generateSlug(name) == Trim(ReplaceAllString(ToLower(name)), "-")

\* strings.TrimPrefix on a token sequence
TrimPrefix(s, prefix) == IF s # <<>> /\ Head(s) = prefix THEN Tail(s) ELSE s

\* Mutant: only "https://" is removed
stripProtocol_httpsOnly(url) == TrimPrefix(url, "https://")

stripProtocol(url) == TrimPrefix(TrimPrefix(url, "https://"), "http://")

-----------------------------------------------------------------------------
(* generateCompanyFromAI *)

RECURSIVE ReplaceAll(_, _, _)
\* strings.ReplaceAll: the occurrences of old, found from left to right without
\* overlap, replaced by new
ReplaceAll(s, old, new) ==
    IF Len(s) < Len(old) THEN s
    ELSE IF SubSeq(s, 1, Len(old)) = old
         THEN new \o ReplaceAll(SubSeq(s, Len(old) + 1, Len(s)), old, new)
         ELSE <<Head(s)>> \o ReplaceAll(Tail(s), old, new)

WhiteSpace == {" ", "\n", "\t"}
RECURSIVE TrimSpace(_)
TrimSpace(s) ==
    IF s # <<>> /\ Head(s) \in WhiteSpace THEN TrimSpace(Tail(s))
    ELSE IF s # <<>> /\ s[Len(s)] \in WhiteSpace THEN TrimSpace(SubSeq(s, 1, Len(s) - 1))
    ELSE s

\* Mutant: only the opening tag is removed
PostProcessAppeal_openOnly(appeal) == TrimSpace(ReplaceAll(appeal, UlOpen, <<>>))

\* Post-processing of company.Appeal
PostProcessAppeal(appeal) ==
    TrimSpace(ReplaceAll(ReplaceAll(appeal, UlOpen, <<>>), UlClose, <<>>))

SocialValue(k, present) == IF k \in present THEN "https://social.example/acme" ELSE ""

RequiredFields == {"name", "website", "cover_image", "description", "appeal"}

\* JSON objects carrying all nine fields of CompanyFromAI
FullFields ==
    {[name |-> n, website |-> w, cover_image |-> c, description |-> "Acme builds tools.",
      appeal |-> a,
      linkedin |-> SocialValue("linkedin", soc), instagram |-> SocialValue("instagram", soc),
      facebook |-> SocialValue("facebook", soc), twitter |-> SocialValue("twitter", soc)] :
        n \in Names, w \in Websites, c \in CoverImages, a \in Appeals,
        soc \in SUBSET SocialKeys}

\* The object f without the fields in missing
Without(f, missing) == [k \in DOMAIN f \ missing |-> f[k]]

\* Contents of the first choice: text that is not JSON, an object with a field
\* of the wrong type, or an object with string fields
ObjectContent(f) == [json |-> "object", fields |-> f]
AIContents == {ObjectContent(f) : f \in FullFields}
AIContentsWide ==
    {[json |-> "syntax"], [json |-> "mistyped"]}
    \cup {ObjectContent(Without(f, missing)) : f \in FullFields, missing \in SUBSET RequiredFields}

\* What the completion API can answer with
CompletionResponses(contents) ==
    {[kind |-> "unreachable"], [kind |-> "status"], [kind |-> "decode"],
     [kind |-> "no_choices"]}
    \cup {[kind |-> "choices", content |-> c] : c \in contents}

\* The zero value of a string field of CompanyFromAI
ZeroValue(k) == IF k \in {"name", "website", "cover_image", "appeal"} THEN <<>> ELSE ""

\* json.Unmarshal([]byte(content), &company): a field absent from the object
\* keeps its zero value
Unmarshal(content) ==
    IF content.json # "object"
    THEN [err |-> TRUE]
    ELSE LET Field(k) == IF k \in DOMAIN content.fields THEN content.fields[k]
                         ELSE ZeroValue(k)
         IN  [err |-> FALSE,
              company |-> [Name |-> Field("name"), Website |-> Field("website"),
                           CoverImage |-> Field("cover_image"),
                           Description |-> Field("description"),
                           Appeal |-> Field("appeal"), LinkedIn |-> Field("linkedin"),
                           Instagram |-> Field("instagram"),
                           Facebook |-> Field("facebook"), Twitter |-> Field("twitter")]]

\* generateCompanyFromAI from the answer of the completion API on; err "nil"
\* is success
generateCompanyFromAI(resp) ==
    CASE resp.kind = "unreachable" -> [err |-> "failed to call OpenAI API"]
      [] resp.kind = "status" -> [err |-> "OpenAI API returned status"]
      [] resp.kind = "decode" -> [err |-> "failed to decode OpenAI response"]
      [] resp.kind = "no_choices" -> [err |-> "OpenAI returned no choices"]
      [] OTHER ->
           LET parsed == Unmarshal(resp.content) IN
           IF parsed.err
           THEN [err |-> "failed to parse company JSON from OpenAI"]
           ELSE [err |-> "nil",
                 company |-> [parsed.company EXCEPT
                                  !.Appeal = PostProcessAppeal(parsed.company.Appeal)]]

\* if err != nil after generateCompanyFromAI
AIFailed(err) == err # "nil"

\* The call of generateCompanyFromAI, the check of its error and generateSlug
GenerateCompanyFromAI ==
    /\ gpc = "ai"
    /\ gcalls' = Append(gcalls, Call("llm", <<>>))
    /\ \E resp \in CompletionResponses(AIContents \cup {[json |-> "syntax"]}) :
          LET r == generateCompanyFromAI(resp) IN
          /\ aiErr' = r.err
          /\ IF AIFailed(r.err)
             THEN /\ gpc' = "done"
                  /\ response' = ErrorResponse(502, "bad_gateway",
                                               "Failed to generate company from AI")
                  /\ UNCHANGED <<companyData, slug>>
             ELSE /\ companyData' = r.company
                  /\ slug' = generateSlug(r.company.Name)
                  /\ gpc' = "chain"
                  /\ UNCHANGED response
    /\ UNCHANGED <<method, env, dbClient, coverImageURL, chain, companyMap, insertOutcome>>
    /\ UNCHANGED <<gctxDone, blobs, pubVars, auxVars>>

-----------------------------------------------------------------------------
(* The cover-image chain *)

\* Mutant: the website is not part of the condition
ChainConfigured_noWebsite ==
    /\ env["AWS_REGION"] # ""
    /\ env["AWS_ACCESS_KEY_ID"] # ""
    /\ env["AWS_SECRET_ACCESS_KEY"] # ""
    /\ env["S3_BUCKET_NAME"] # ""
    /\ env["SCREENSHOTONE_API_KEY"] # ""

\* The condition under which the chain is attempted
ChainConfigured ==
    /\ env["AWS_REGION"] # ""
    /\ env["AWS_ACCESS_KEY_ID"] # ""
    /\ env["AWS_SECRET_ACCESS_KEY"] # ""
    /\ env["S3_BUCKET_NAME"] # ""
    /\ env["SCREENSHOTONE_API_KEY"] # ""
    /\ companyData.Website # <<>>

\* Mutant: a failed upload is tried once more
Fallback_retry(how) ==
    IF how = "upload_failed" /\ chain = "none"
    THEN /\ chain' = "retrying"
         /\ gpc' = "upload"
         /\ UNCHANGED coverImageURL
    ELSE /\ coverImageURL' = companyData.CoverImage
         /\ chain' = how
         /\ gpc' = "insert"

\* Mutant: a failed step leaves coverImageURL at its zero value
Fallback_unset(how) ==
    /\ coverImageURL' = <<>>
    /\ chain' = how
    /\ gpc' = "insert"

\* coverImageURL = companyData.CoverImage
Fallback(how) ==
    /\ coverImageURL' = companyData.CoverImage
    /\ chain' = how
    /\ gpc' = "insert"

\* The configuration check and storage.NewS3Uploader
ChainStart ==
    /\ gpc = "chain"
    /\ IF ChainConfigured
       THEN \/ Fallback("uploader_failed")
            \/ /\ gpc' = "screenshot"
               /\ UNCHANGED <<coverImageURL, chain>>
       ELSE Fallback("skipped")
    /\ UNCHANGED <<method, env, dbClient, companyData, slug, companyMap, insertOutcome,
                   gcalls, response>>
    /\ UNCHANGED <<aiErr, gctxDone, blobs, pubVars, auxVars>>

ScreenshotFailures == {"unreachable", "cancelled", "status", "read"}

\* storage.FetchScreenshotOneBytes
FetchScreenshot ==
    /\ gpc = "screenshot"
    /\ IF env["SCREENSHOTONE_API_KEY"] = "" \/ gctxDone
       THEN Fallback("screenshot_failed") /\ UNCHANGED <<gcalls, gctxDone>>
       ELSE /\ gcalls' = Append(gcalls, Call("render", companyData.Website))
            /\ \/ \E f \in ScreenshotFailures :
                     /\ Fallback("screenshot_failed")
                     /\ gctxDone' = (f = "cancelled")
               \/ /\ gpc' = "upload"
                  /\ UNCHANGED <<coverImageURL, chain, gctxDone>>
    /\ UNCHANGED <<method, env, dbClient, companyData, slug, companyMap, insertOutcome,
                   response>>
    /\ UNCHANGED <<aiErr, blobs, pubVars, auxVars>>

ScreenshotKey(companySlug, timestamp) ==
    <<"startup-screenshots/">> \o companySlug \o <<"-", timestamp, ".png">>

S3URL(key) ==
    <<"https://", env["S3_BUCKET_NAME"], ".s3.", env["AWS_REGION"], ".amazonaws.com/">> \o key

\* s3 PutObject: the bucket holds an object under the key
PutObject(bucket, key) == bucket \cup {key}

\* S3Uploader.UploadScreenshot
UploadScreenshot ==
    /\ gpc = "upload"
    /\ \E timestamp \in Timestamps :
          /\ gcalls' = Append(gcalls, Call("upload", ScreenshotKey(slug, timestamp)))
          /\ \/ Fallback("upload_failed") /\ UNCHANGED blobs
             \/ /\ blobs' = PutObject(blobs, ScreenshotKey(slug, timestamp))
                /\ coverImageURL' = S3URL(ScreenshotKey(slug, timestamp))
                /\ chain' = "uploaded"
                /\ gpc' = "insert"
    /\ UNCHANGED <<method, env, dbClient, companyData, slug, companyMap, insertOutcome,
                   response>>
    /\ UNCHANGED <<aiErr, gctxDone, pubVars, auxVars>>

-----------------------------------------------------------------------------
(* The insert *)

SocialOf(k) ==
    CASE k = "twitter" -> companyData.Twitter
      [] k = "linkedin" -> companyData.LinkedIn
      [] k = "facebook" -> companyData.Facebook
      [] OTHER -> companyData.Instagram

\* Mutant: the four social keys are always set
BuildCompanyMap_allSocials ==
    [name |-> companyData.Name,
     slug |-> slug,
     website |-> stripProtocol(companyData.Website),
     cover_image |-> coverImageURL,
     description |-> companyData.Description,
     appeal |-> companyData.Appeal,
     twitter |-> companyData.Twitter,
     linkedin |-> companyData.LinkedIn,
     facebook |-> companyData.Facebook,
     instagram |-> companyData.Instagram]

\* The companyMap of the handler
BuildCompanyMap ==
    LET base == [name |-> companyData.Name,
                 slug |-> slug,
                 website |-> stripProtocol(companyData.Website),
                 cover_image |-> coverImageURL,
                 description |-> companyData.Description,
                 appeal |-> companyData.Appeal]
        present == {k \in SocialKeys : SocialOf(k) # ""}
    IN  [k \in DOMAIN base \cup present |-> IF k \in present THEN SocialOf(k) ELSE base[k]]

InsertOutcomes == {"error", "empty", "ok"}

\* Mutant: an insert that returns no record is not an error
InsertMapErr_noEmptyCheck(outcome) == outcome \in {"nil_client", "error"}

\* InsertMap returns a non-nil error: no client, a failed request, or no
\* record in the result
InsertMapErr(outcome) == outcome \in {"nil_client", "error", "empty"}

\* CompanyRepository.InsertMap and the response of the handler
InsertCompany ==
    /\ gpc = "insert"
    /\ companyMap' = BuildCompanyMap
    /\ IF ~dbClient
       THEN /\ insertOutcome' = "nil_client"
            /\ UNCHANGED gcalls
       ELSE /\ insertOutcome' \in InsertOutcomes
            /\ gcalls' = Append(gcalls, Call("insert", <<>>))
    /\ response' = IF InsertMapErr(insertOutcome')
                   THEN ErrorResponse(500, "internal_server_error",
                                      "Failed to save company to database")
                   ELSE [status |-> 200,
                         body |-> [id |-> "uuid-1", fields |-> companyMap']]
    /\ gpc' = "done"
    /\ UNCHANGED <<method, env, dbClient, companyData, slug, coverImageURL, chain>>
    /\ UNCHANGED <<aiErr, gctxDone, blobs, pubVars, auxVars>>

GenNext ==
    \/ GenCancel
    \/ GenerateEnter
    \/ GenerateCompanyFromAI
    \/ ChainStart
    \/ FetchScreenshot
    \/ UploadScreenshot
    \/ InsertCompany

GenSpec == GenInit /\ [][GenNext]_vars

-----------------------------------------------------------------------------
(* Properties of the generation orchestrator *)

GCount(o) == Cardinality({i \in 1..Len(gcalls) : gcalls[i].op = o})
ChainFailed == chain \in {"uploader_failed", "screenshot_failed", "upload_failed"}
ConfigIncomplete ==
    \/ \E k \in {"AWS_REGION", "AWS_ACCESS_KEY_ID", "AWS_SECRET_ACCESS_KEY",
                 "S3_BUCKET_NAME", "SCREENSHOTONE_API_KEY"} : env[k] = ""
    \/ companyData.Website = <<>>

\* C9 as stated: after any failure of the cover-image chain the run still
\* performs the insert with the AI-suggested cover image unmodified and
\* returns the persisted record.
C9_Original ==
    ChainFailed /\ gpc = "done" =>
        /\ GCount("insert") = 1
        /\ companyMap["cover_image"] = companyData.CoverImage
        /\ response.status = 200
        /\ response.body = [id |-> "uuid-1", fields |-> companyMap]

\* C9 (amended): a failure of the cover-image chain (storage-client
\* construction, screenshot capture or upload) never aborts record creation:
\* the run goes on to the repository insert, the cover image given to it is
\* the AI-suggested value unmodified, and the run returns the persisted
\* record whenever that insert succeeds; only a failure of the insert itself
\* (store client missing, insert error, no record returned) ends it with 500.
C9_Amended ==
    ChainFailed =>
        /\ gpc \in {"insert", "done"}
        /\ coverImageURL = companyData.CoverImage
        /\ gpc = "done" =>
              /\ insertOutcome # "none"
              /\ companyMap["cover_image"] = companyData.CoverImage
              /\ insertOutcome = "ok" =>
                    /\ GCount("insert") = 1
                    /\ response.status = 200
                    /\ response.body = [id |-> "uuid-1", fields |-> companyMap]
              /\ insertOutcome # "ok" => response.status = 500

C9_Witness ==
    /\ gpc = "done"
    /\ chain = "upload_failed"
    /\ companyData.CoverImage # <<>>
    /\ response.status = 200
    /\ response.body.fields["cover_image"] = companyData.CoverImage

\* C10: if any one of storage region, access key, secret key, bucket name,
\* rendering-service key or the company website is empty, the run issues no
\* screenshot call and no upload, and the cover image it inserts is the
\* AI-suggested value unmodified.
C10_IncompleteConfigSkips ==
    (companyData # <<>> /\ ConfigIncomplete) =>
        /\ GCount("render") = 0
        /\ GCount("upload") = 0
        /\ gpc \in {"chain", "insert", "done"}
        /\ gpc \in {"insert", "done"} =>
              /\ chain = "skipped"
              /\ coverImageURL = companyData.CoverImage
        /\ gpc = "done" => companyMap["cover_image"] = companyData.CoverImage

C10_Witness ==
    /\ gpc = "done"
    /\ insertOutcome = "ok"
    /\ companyData.Website = <<>>
    /\ \A k \in EnvKeys : env[k] # ""
    /\ companyData.CoverImage # <<>>
    /\ response.body.fields["cover_image"] = companyData.CoverImage

-----------------------------------------------------------------------------
(* C11: a failed AI generation step answers 502 bad_gateway and the run has  *)
(* made no render call, no upload and no insert; a failed insert (no store   *)
(* client, a failed request, or no record returned) answers 500              *)
(* internal_server_error; 200 with the record is answered only when both the *)
(* generation and the insert succeeded.                                      *)
C11_MandatoryFailures ==
    /\ aiErr \notin {"unset", "nil"} =>
          /\ gpc = "done"
          /\ response.status = 502
          /\ response.body.Error = "bad_gateway"
          /\ GCount("render") = 0 /\ GCount("upload") = 0 /\ GCount("insert") = 0
          /\ insertOutcome = "none"
    /\ insertOutcome \in {"nil_client", "error", "empty"} =>
          /\ gpc = "done"
          /\ response.status = 500
          /\ response.body.Error = "internal_server_error"
    /\ response.status = 200 =>
          /\ aiErr = "nil"
          /\ insertOutcome = "ok"
          /\ response.body.fields = companyMap

C11_Witness ==
    /\ gpc = "done"
    /\ aiErr = "nil"
    /\ insertOutcome = "empty"
    /\ response.status = 500

-----------------------------------------------------------------------------
(* C12, as stated: every POST run that has ended issued one LLM call, at     *)
(* most one render call, at most one upload and exactly one insert.          *)
C12_Original ==
    (gpc = "done" /\ method = "POST") =>
        /\ GCount("llm") = 1
        /\ GCount("render") <= 1
        /\ GCount("upload") <= 1
        /\ GCount("insert") = 1

(* C12, amended: a run issues at most one LLM call, at most one render call, *)
(* at most one upload and at most one insert, so no step is retried; it has  *)
(* issued exactly one LLM call once the generation step has returned, and    *)
(* exactly one LLM call and one insert when it answers 200 with the record.  *)
C12_Amended ==
    /\ \A o \in {"llm", "render", "upload", "insert"} : GCount(o) <= 1
    /\ aiErr # "unset" => GCount("llm") = 1
    /\ response.status = 200 => GCount("llm") = 1 /\ GCount("insert") = 1

C12_Witness ==
    /\ gpc = "done"
    /\ response.status = 200
    /\ GCount("llm") = 1
    /\ GCount("render") = 1
    /\ GCount("upload") = 1
    /\ GCount("insert") = 1
    /\ chain = "upload_failed"

-----------------------------------------------------------------------------
(* C13: the cover image of every inserted record is non-empty, and is either *)
(* the URL returned by the upload or the generator's cover image.            *)
C13_CoverImageNeverEmpty ==
    (gpc = "done" /\ insertOutcome = "ok") =>
        /\ companyMap.cover_image # <<>>
        /\ companyMap.cover_image = companyData.CoverImage \/ chain = "uploaded"

-----------------------------------------------------------------------------
(* generateCompanyFromAI applied to one answer of the completion API *)

AIInit ==
    /\ PubIdle
    /\ GenIdle
    /\ store = {}
    /\ queryOutcome = NoQuery
    /\ ConcIdle
    /\ fpc = "generateCompanyFromAI"
    /\ fIn \in CompletionResponses(AIContentsWide)
    /\ fOut = <<>>

ApplyGenerateCompanyFromAI ==
    /\ fpc = "generateCompanyFromAI"
    /\ fOut' = generateCompanyFromAI(fIn)
    /\ fpc' = "done"
    /\ UNCHANGED <<fIn, store, queryOutcome, concVars, pubVars, genVars>>

AINext == ApplyGenerateCompanyFromAI

AISpec == AIInit /\ [][AINext]_vars

(* C14: the generation step succeeds exactly when the completion API answers *)
(* with a choice whose content is a JSON object in which name, website,      *)
(* cover_image, description and appeal are all present; it fails when the    *)
(* API is unreachable, answers a non-success status, returns zero choices or *)
(* returns any other content.                                                *)
C14_FailsUnlessAllFieldsPresent ==
    fpc = "done" =>
        (fOut.err = "nil" <=>
            /\ fIn.kind = "choices"
            /\ fIn.content.json = "object"
            /\ RequiredFields \subseteq DOMAIN fIn.content.fields)

-----------------------------------------------------------------------------
(* C15: the slug of every inserted record is non-empty.                      *)
C15_SlugNonEmpty ==
    (gpc = "done" /\ insertOutcome = "ok") => companyMap.slug # <<>>

-----------------------------------------------------------------------------
(* generateSlug applied to one company name *)

MaxNameLen == 4
NameAlphabet == {"A", "b", "1", " ", "-", "É"}
RECURSIVE SeqsUpTo(_, _)
\* the sequences over S of length at most n
SeqsUpTo(S, n) ==
    IF n = 0 THEN {<<>>}
    ELSE LET shorter == SeqsUpTo(S, n - 1)
         IN  shorter \cup {Append(q, c) : q \in shorter, c \in S}
SlugNames == Names \cup SeqsUpTo(NameAlphabet, MaxNameLen)

SlugInit ==
    /\ PubIdle
    /\ GenIdle
    /\ store = {}
    /\ queryOutcome = NoQuery
    /\ ConcIdle
    /\ fpc = "generateSlug"
    /\ fIn \in SlugNames
    /\ fOut = <<>>

ApplyGenerateSlug ==
    /\ fpc = "generateSlug"
    /\ fOut' = generateSlug(fIn)
    /\ fpc' = "done"
    /\ UNCHANGED <<fIn, store, queryOutcome, concVars, pubVars, genVars>>

SlugNext == ApplyGenerateSlug

SlugSpec == SlugInit /\ [][SlugNext]_vars

(* C16: for every name, generateSlug returns a string of characters of       *)
(* [a-z0-9-] only (so lowercase), without a leading or trailing hyphen and   *)
(* without two consecutive hyphens; the result is a function of the name,    *)
(* and "Acme AI, Inc." gives "acme-ai-inc".                                  *)
C16_SlugShape ==
    fpc = "done" =>
        /\ \A i \in 1..Len(fOut) : fOut[i] \in SlugChars \cup {"-"}
        /\ fOut # <<>> => fOut[1] # "-" /\ fOut[Len(fOut)] # "-"
        /\ \A i \in 1..(Len(fOut) - 1) : ~(fOut[i] = "-" /\ fOut[i + 1] = "-")
        /\ fOut = generateSlug(fIn)
        /\ fIn = <<"A", "c", "m", "e", " ", "A", "I", ",", " ", "I", "n", "c", ".">> =>
               fOut = <<"a", "c", "m", "e", "-", "a", "i", "-", "i", "n", "c">>

C16_Witness ==
    /\ fpc = "done"
    /\ fIn = <<"A", " ", "-", "b">>
    /\ fOut = <<"a", "-", "b">>

-----------------------------------------------------------------------------
(* truncateCaption. A Go string is its sequence of UTF-8 bytes: len and the  *)
(* slice expression count bytes.                                             *)

maxCaptionLength == 2200

\* UTF-8 encodings of the glyphs of the caption template
Pill == <<"F0", "9F", "92", "8A">>
Bolt == <<"E2", "9A", "A1">>
Bullet == <<"E2", "80", "A2">>
Ellipsis == <<".", ".", ".">>
Ascii(n) == [i \in 1..n |-> "a"]

ContinuationBytes == {"9F", "92", "8A", "9A", "A1", "80", "A2"}
\* bytes of the encoding that a lead byte announces
RuneWidth(b) == CASE b = "F0" -> 4 [] b = "E2" -> 3 [] OTHER -> 1

\* position i of s starts a complete encoded character
StartsRune(s, i) ==
    /\ s[i] \notin ContinuationBytes
    /\ i + RuneWidth(s[i]) - 1 <= Len(s)
    /\ \A j \in (i + 1)..(i + RuneWidth(s[i]) - 1) : s[j] \in ContinuationBytes

\* position i of s is a continuation byte of a complete encoded character
InsideRune(s, i) ==
    /\ s[i] \in ContinuationBytes
    /\ \E j \in {k \in (i - 3)..(i - 1) : k >= 1} :
          StartsRune(s, j) /\ i <= j + RuneWidth(s[j]) - 1

\* utf8.RuneCountInString: every byte outside a complete encoding counts as
\* one character
CharLen(s) == Cardinality({i \in 1..Len(s) : ~InsideRune(s, i)})

\* every byte of s belongs to a complete encoded character
ValidUTF8(s) == \A i \in 1..Len(s) : StartsRune(s, i) \/ InsideRune(s, i)

truncateCaption(caption) ==
    IF Len(caption) <= maxCaptionLength
    THEN caption
    ELSE SubSeq(caption, 1, maxCaptionLength - 3) \o Ellipsis

\* Captions around the limit: the glyphs of the template or nothing, a run of
\* one-byte characters, a glyph or nothing, and the end of the text
Captions ==
    {head \o Ascii(n) \o glyph \o end :
        head \in {<<>>, Pill \o Bolt},
        n \in (maxCaptionLength - 12)..(maxCaptionLength + 5),
        glyph \in {<<>>, Pill, Bullet},
        end \in {<<>>, Ascii(4)}}

CaptionInit ==
    /\ PubIdle
    /\ GenIdle
    /\ store = {}
    /\ queryOutcome = NoQuery
    /\ ConcIdle
    /\ fpc = "BuildCaption"
    /\ fIn \in Captions
    /\ fOut = <<>>

\* return truncateCaption(caption) of BuildCaption
BuildCaptionTruncate ==
    /\ fpc = "BuildCaption"
    /\ fOut' = truncateCaption(fIn)
    /\ fpc' = "createMediaContainer"
    /\ UNCHANGED <<fIn, store, queryOutcome, concVars, pubVars, genVars>>

\* data.Set("caption", truncateCaption(caption)) of createMediaContainer
CreateTruncate ==
    /\ fpc = "createMediaContainer"
    /\ fOut' = truncateCaption(fOut)
    /\ fpc' = "done"
    /\ UNCHANGED <<fIn, store, queryOutcome, concVars, pubVars, genVars>>

CaptionNext ==
    \/ BuildCaptionTruncate
    \/ CreateTruncate

CaptionSpec == CaptionInit /\ [][CaptionNext]_vars

(* C17: a caption of more than 2200 characters is sent as exactly 2200       *)
(* characters ending in "..."; a caption of at most 2200 characters is sent  *)
(* unchanged; what is sent never exceeds 2200 characters; multi-byte         *)
(* characters included.                                                      *)
C17_TruncationByCharacters ==
    fpc = "done" =>
        /\ CharLen(fIn) > maxCaptionLength =>
              /\ CharLen(fOut) = maxCaptionLength
              /\ SubSeq(fOut, Len(fOut) - 2, Len(fOut)) = Ellipsis
        /\ CharLen(fIn) <= maxCaptionLength => fOut = fIn
        /\ CharLen(fOut) <= maxCaptionLength

-----------------------------------------------------------------------------
(* CompanyLatestHandler and CompanyRepository.GetLatest *)

\* Rows the companies table can hold; created_at orders them
Rows == {[id |-> "c1", created_at |-> 1], [id |-> "c2", created_at |-> 2],
         [id |-> "c3", created_at |-> 3], [id |-> "c4", created_at |-> 4]}

\* Errors ExecuteTo can return
QueryFailures == {<<"dial tcp: connection refused">>,
                  <<"(42P01) relation does not exist">>}

\* ORDER BY created_at DESC LIMIT 1
QueryLatest(table) ==
    IF table = {} THEN <<>>
    ELSE <<CHOOSE r \in table : \A o \in table : o.created_at <= r.created_at>>

\* How the query can go for a client and a table
Executions(client, table) ==
    IF ~client THEN {[exec |-> "nil_client"]}
    ELSE {[exec |-> "error", cause |-> c] : c \in QueryFailures}
         \cup {[exec |-> "ok", rows |-> QueryLatest(table)]}

\* GetLatest: the rows read and the error returned (<<>> is nil)
GetLatest(q) ==
    CASE q.exec = "nil_client" ->
             [exec |-> q.exec, rows |-> <<>>, err |-> <<"database client not initialized">>]
      [] q.exec = "error" ->
             [exec |-> q.exec, rows |-> <<>>,
              err |-> <<"failed to query database: ">> \o q.cause]
      [] q.exec = "ok" /\ q.rows = <<>> ->
             [exec |-> q.exec, rows |-> <<>>, err |-> <<"no companies found">>]
      [] OTHER -> [exec |-> q.exec, rows |-> q.rows, err |-> <<>>]

\* Mutant: every error of GetLatest is taken for the empty table
IsNotFound_anyError(err) == err # <<>>

\* strings.Contains(err.Error(), "no companies found")
IsNotFound(err) == Contains(err, "no companies found")

\* What the handler writes for the result of GetLatest
LatestResponse(got) ==
    IF got.err # <<>>
    THEN IF IsNotFound(got.err)
         THEN ErrorResponse(404, "not_found", "no companies found")
         ELSE ErrorResponse(500, "internal_server_error", "Failed to retrieve company")
    ELSE [status |-> 200, body |-> got.rows[1]]

LatestInit ==
    /\ PubIdle
    /\ gpc = "latest"
    /\ method \in Methods
    /\ env = [k \in {} |-> ""]
    /\ dbClient \in BOOLEAN
    /\ companyData = [k \in {} |-> ""]
    /\ slug = <<>>
    /\ coverImageURL = <<>>
    /\ chain = "none"
    /\ companyMap = [k \in {} |-> ""]
    /\ insertOutcome = "none"
    /\ gcalls = <<>>
    /\ response = [status |-> 0, body |-> "none"]
    /\ aiErr = "unset"
    /\ gctxDone = FALSE
    /\ blobs = {}
    /\ store \in SUBSET Rows
    /\ queryOutcome = NoQuery
    /\ ConcIdle
    /\ fpc = "idle"
    /\ fIn = <<>>
    /\ fOut = <<>>

\* CompanyLatestHandler
CompanyLatest ==
    /\ gpc = "latest"
    /\ IF method # "GET"
       THEN /\ response' = [status |-> 405, body |-> "Method not allowed"]
            /\ UNCHANGED queryOutcome
       ELSE \E q \in Executions(dbClient, store) :
               /\ queryOutcome' = GetLatest(q)
               /\ response' = LatestResponse(queryOutcome')
    /\ gpc' = "done"
    /\ UNCHANGED <<method, env, dbClient, companyData, slug, coverImageURL, chain,
                   companyMap, insertOutcome, gcalls, aiErr, gctxDone, blobs>>
    /\ UNCHANGED <<store, fpc, fIn, fOut, concVars, pubVars>>

LatestNext == CompanyLatest

LatestSpec == LatestInit /\ [][LatestNext]_vars

(* C18: GetLatest returns "no companies found" exactly when the query        *)
(* succeeds with zero rows, i.e. on an empty table; CompanyLatestHandler     *)
(* answers 404 not_found exactly then, and 500 internal_server_error when    *)
(* the query fails or the store client is not initialised.                   *)
C18_EmptyVersusFailure ==
    (gpc = "done" /\ method = "GET") =>
        /\ queryOutcome.err = <<"no companies found">>
              <=> (queryOutcome.exec = "ok" /\ store = {})
        /\ (response.status = 404 /\ response.body.Error = "not_found")
              <=> (queryOutcome.exec = "ok" /\ store = {})
        /\ queryOutcome.exec \in {"error", "nil_client"} =>
              /\ response.status = 500
              /\ response.body.Error = "internal_server_error"
        /\ response.status \in {200, 404, 500}

C18_Witness ==
    /\ gpc = "done"
    /\ method = "GET"
    /\ dbClient
    /\ store = {}
    /\ queryOutcome.exec = "ok"
    /\ response.status = 404

-----------------------------------------------------------------------------
(* C19: the error string of a PublishResult never contains the access token  *)
(* of the client, whichever request failed and however it failed.            *)
C19_NoCredentialInFailure ==
    (pc = "done" /\ accessToken # "") => ~Contains(result.Error, accessToken)

-----------------------------------------------------------------------------
(* C20: the map given to the insert has the key twitter, linkedin, facebook  *)
(* or instagram exactly when the generated value of that field is non-empty, *)
(* then mapped to that value, and never maps one of them to the empty        *)
(* string.                                                                   *)
C20_SocialsOmittedWhenAbsent ==
    (gpc = "done" /\ insertOutcome # "none") =>
        /\ "twitter" \in DOMAIN companyMap <=> companyData.Twitter # ""
        /\ "linkedin" \in DOMAIN companyMap <=> companyData.LinkedIn # ""
        /\ "facebook" \in DOMAIN companyMap <=> companyData.Facebook # ""
        /\ "instagram" \in DOMAIN companyMap <=> companyData.Instagram # ""
        /\ "twitter" \in DOMAIN companyMap => companyMap.twitter = companyData.Twitter
        /\ "linkedin" \in DOMAIN companyMap => companyMap.linkedin = companyData.LinkedIn
        /\ "facebook" \in DOMAIN companyMap => companyMap.facebook = companyData.Facebook
        /\ "instagram" \in DOMAIN companyMap => companyMap.instagram = companyData.Instagram
        /\ \A k \in SocialKeys \cap DOMAIN companyMap : companyMap[k] # ""

C20_Witness ==
    /\ gpc = "done"
    /\ insertOutcome = "ok"
    /\ companyData.Twitter # ""
    /\ companyData.LinkedIn = ""
    /\ "twitter" \in DOMAIN companyMap
    /\ "linkedin" \notin DOMAIN companyMap

-----------------------------------------------------------------------------
(* C21, as stated: a run that has issued k status calls had waited k delays  *)
(* before the k-th call, so the delays that have passed are never fewer than *)
(* the status calls issued.                                                  *)
C21_Original == CountOp("status") <= delays

(* C21, amended: every status call but the first is preceded by a delay: the *)
(* step that issues the k-th status call of a run starts after exactly k - 1 *)
(* delays.                                                                   *)
C21_Amended ==
    [][CountOp("status")' = CountOp("status") + 1 => delays = CountOp("status")' - 1]_vars

C21_Witness ==
    /\ CountOp("status") = 2
    /\ delays = 1
    /\ pc = "sleep"

-----------------------------------------------------------------------------
(* C22: once the caller of an orchestration run has cancelled, the run       *)
(* starts no further external call (LLM, render, upload, insert).            *)
C22_NoCallAfterCancel ==
    \A i \in 1..Len(gcalls) : ~gcalls[i].ctxDone

-----------------------------------------------------------------------------
(* C23: a run that ends in a failure response leaves nothing behind in an    *)
(* external store: no object in the bucket.                                  *)
C23_NothingLeftOnFailure ==
    (gpc = "done" /\ response.status # 200) => blobs = {}

-----------------------------------------------------------------------------
(* Several PublishPost runs on one shared Client. The Client is never        *)
(* written after NewClient; containerID and attempt are locals of each run.  *)

RunIDs == {"r1", "r2"}

\* The locals of a run that has not started, with a record of what it did:
\* created: create requests issued; got: the id its create call returned;
\* polled, published: the ids its status and publish requests referred to
NewRun == [pc |-> "start", containerID |-> "", attempt |-> 0,
           created |-> 0, got |-> "", polled |-> {}, published |-> {}]

SharedInit ==
    /\ \E u \in UserIDs, t \in AccessTokens, v \in ApiVersions :
          LET c == NewClient(u, t, v) IN
          /\ userID = c.userID
          /\ accessToken = c.accessToken
          /\ apiVersion = c.apiVersion
    /\ pc = "idle"
    /\ ctxDone = FALSE
    /\ ctxErr = "nil"
    /\ attempt = 0
    /\ containerID = ""
    /\ lastStatus = ""
    /\ nInProgress = 0
    /\ nUnknown = 0
    /\ calls = <<>>
    /\ createResp = NoResponse
    /\ publishResp = NoResponse
    /\ result = NoResult
    /\ retErr = "unset"
    /\ delays = 0
    /\ statusResp = NoResponse
    /\ GenIdle
    /\ store = {}
    /\ queryOutcome = NoQuery
    /\ fpc = "idle"
    /\ fIn = <<>>
    /\ fOut = <<>>
    /\ runs = [r \in RunIDs |-> NewRun]
    /\ clock = 0
    /\ onceDone = FALSE
    /\ initLog = <<>>

SharedFrame ==
    UNCHANGED <<pubVars, genVars, store, queryOutcome, fpc, fIn, fOut, clock, onceDone,
                initLog>>

\* PublishPost of run r up to the call of createMediaContainer
RunEnter(r) ==
    /\ runs[r].pc = "start"
    /\ runs' = [runs EXCEPT ![r].pc = IF IsConfigured THEN "create" ELSE "done"]
    /\ SharedFrame

\* createMediaContainer of run r and containerID, err := ...
RunCreate(r) ==
    /\ runs[r].pc = "create"
    /\ IF ~NewRequestOK(CreateEndpoint)
       THEN runs' = [runs EXCEPT ![r].pc = "done"]
       ELSE \E resp \in CreateResponses :
               IF createMediaContainerErr(resp) # <<>>
               THEN runs' = [runs EXCEPT ![r].pc = "done",
                                         ![r].created = runs[r].created + 1]
               ELSE runs' = [runs EXCEPT ![r].pc = "poll",
                                         ![r].created = runs[r].created + 1,
                                         ![r].got = resp.id,
                                         ![r].containerID = resp.id]
    /\ SharedFrame

\* Mutant: the container id is kept in one place shared by the runs
ContainerOf_shared(r) ==
    CHOOSE c \in {runs[q].containerID : q \in RunIDs} \ {""} : TRUE

\* The containerID argument of waitForContainerReady and publishContainer
ContainerOf(r) == runs[r].containerID

\* One iteration of the polling loop of run r up to time.Sleep
RunPoll(r) ==
    /\ runs[r].pc = "poll"
    /\ PollBudgetLeft(runs[r].attempt)
    /\ \E resp \in StatusResponses :
          LET polled == runs[r].polled \cup {ContainerOf(r)}
              after ==
                  IF statusRequestErr(resp) # <<>> THEN "done"
                  ELSE CASE StatusSwitch(resp.status_code) = "nil" -> "publish"
                         [] StatusSwitch(resp.status_code) = "continue" -> "sleep"
                         [] OTHER -> "done"
          IN  runs' = [runs EXCEPT ![r].pc = after, ![r].polled = polled]
    /\ SharedFrame

\* time.Sleep(containerPollDelay) and attempt++ of run r
RunSleep(r) ==
    /\ runs[r].pc = "sleep"
    /\ runs' = [runs EXCEPT ![r].pc = "poll", ![r].attempt = runs[r].attempt + 1]
    /\ SharedFrame

\* The loop of run r ends without a terminal status
RunExhausted(r) ==
    /\ runs[r].pc = "poll"
    /\ ~PollBudgetLeft(runs[r].attempt)
    /\ runs' = [runs EXCEPT ![r].pc = "done"]
    /\ SharedFrame

\* publishContainer of run r
RunPublish(r) ==
    /\ runs[r].pc = "publish"
    /\ runs' = [runs EXCEPT ![r].pc = "done",
                            ![r].published = runs[r].published \cup {ContainerOf(r)}]
    /\ SharedFrame

SharedNext ==
    \/ \E r \in RunIDs : RunEnter(r)
    \/ \E r \in RunIDs : RunCreate(r)
    \/ \E r \in RunIDs : RunPoll(r)
    \/ \E r \in RunIDs : RunSleep(r)
    \/ \E r \in RunIDs : RunExhausted(r)
    \/ \E r \in RunIDs : RunPublish(r)

SharedSpec == SharedInit /\ [][SharedNext]_vars

RunUsesOwnContainer(r) ==
    /\ runs[r].polled \subseteq {runs[r].got}
    /\ runs[r].published \subseteq {runs[r].got}
    /\ (runs[r].polled # {} \/ runs[r].published # {}) => runs[r].got # ""

(* C24, as stated: every status poll and the publish request of a run refer  *)
(* to the container id that run's own create call returned, also with runs   *)
(* interleaved on one Client, and every run that has ended created exactly   *)
(* one container.                                                            *)
C24_Original ==
    \A r \in RunIDs :
        /\ RunUsesOwnContainer(r)
        /\ runs[r].pc = "done" => runs[r].created = 1

(* C24, amended: every status poll and the publish request of a run refer to *)
(* the container id that run's own create call returned, also with runs      *)
(* interleaved on one Client; a run issues at most one create request, and   *)
(* exactly one before it polls or publishes.                                 *)
C24_Amended ==
    \A r \in RunIDs :
        /\ RunUsesOwnContainer(r)
        /\ runs[r].created <= 1
        /\ runs[r].pc \in {"poll", "sleep", "publish"} => runs[r].created = 1
        /\ (runs[r].polled # {} \/ runs[r].published # {}) => runs[r].created = 1

C24_Witness ==
    /\ runs["r1"].pc = "done"
    /\ runs["r2"].pc = "sleep"
    /\ runs["r1"].got # ""
    /\ runs["r2"].got # ""
    /\ runs["r1"].got # runs["r2"].got
    /\ runs["r1"].published = {runs["r1"].got}
    /\ runs["r2"].polled = {runs["r2"].got}

-----------------------------------------------------------------------------
(* The post-processing of company.Appeal applied to one appeal *)

MaxFragments == 4

\* Pieces an appeal is put together from: the four tags, text, and pieces of
\* a tag
TagFragments == {UlOpen, UlClose, LiOpen, LiClose}
TextFragments == {<<"A">>, <<" ">>}
AppealFragments == TagFragments \cup TextFragments \cup {<<"<", "u">>, <<"l", ">">>}

RECURSIVE Flatten(_)
Flatten(fragments) ==
    IF fragments = <<>> THEN <<>> ELSE Head(fragments) \o Flatten(Tail(fragments))

AppealInit ==
    /\ PubIdle
    /\ GenIdle
    /\ store = {}
    /\ queryOutcome = NoQuery
    /\ ConcIdle
    /\ fpc = "PostProcessAppeal"
    /\ fIn \in SeqsUpTo(AppealFragments, MaxFragments)
    /\ fOut = <<>>

ApplyPostProcessAppeal ==
    /\ fpc = "PostProcessAppeal"
    /\ fOut' = PostProcessAppeal(Flatten(fIn))
    /\ fpc' = "done"
    /\ UNCHANGED <<fIn, store, queryOutcome, concVars, pubVars, genVars>>

AppealNext == ApplyPostProcessAppeal

AppealSpec == AppealInit /\ [][AppealNext]_vars

\* t occurs in s
HasSub(s, t) == \E i \in 1..(Len(s) - Len(t) + 1) : SubSeq(s, i, i + Len(t) - 1) = t

RECURSIVE LiTokens(_)
\* the "<li>" and "</li>" tokens of s, in order
LiTokens(s) ==
    IF Len(s) < Len(LiOpen) THEN <<>>
    ELSE IF SubSeq(s, 1, Len(LiOpen)) = LiOpen
         THEN <<"<li>">> \o LiTokens(SubSeq(s, Len(LiOpen) + 1, Len(s)))
    ELSE IF Len(s) >= Len(LiClose) /\ SubSeq(s, 1, Len(LiClose)) = LiClose
         THEN <<"</li>">> \o LiTokens(SubSeq(s, Len(LiClose) + 1, Len(s)))
    ELSE LiTokens(Tail(s))

\* the letters of s, in order
Letters(s) == SelectSeq(s, LAMBDA c : c = "A")

\* the appeal without its "<ul>" and "</ul>" pieces
WithoutUl(fragments) == Flatten(SelectSeq(fragments, LAMBDA f : f \notin {UlOpen, UlClose}))

\* the appeal is made of whole tags and of text without "<" and ">"
WellFormed(fragments) ==
    \A i \in 1..Len(fragments) : fragments[i] \in TagFragments \cup TextFragments

-----------------------------------------------------------------------------
(* convertAppealToPlainText applied to one appeal *)

\* Mutant: the result is not trimmed
convertAppealToPlainText_noTrim(appeal) ==
    ReplaceAll(ReplaceAll(appeal, LiOpen, Bullet \o <<" ">>), LiClose, <<"\n">>)

convertAppealToPlainText(appeal) ==
    TrimSpace(ReplaceAll(ReplaceAll(appeal, LiOpen, Bullet \o <<" ">>), LiClose, <<"\n">>))

MaxItems == 3
ItemTexts == {<<>>, <<"A">>, <<"B">>, <<" ">>}
ItemFragments == {LiOpen, LiClose, <<"A">>, <<" ">>, <<"<", "l">>, <<"i", ">">>}

RECURSIVE ItemsOf(_)
\* the appeal "<li>text</li>..." for a list of texts, piece by piece
ItemsOf(texts) ==
    IF texts = <<>> THEN <<>>
    ELSE <<LiOpen, Head(texts), LiClose>> \o ItemsOf(Tail(texts))

PlainTextInit ==
    /\ PubIdle
    /\ GenIdle
    /\ store = {}
    /\ queryOutcome = NoQuery
    /\ ConcIdle
    /\ fpc = "convertAppealToPlainText"
    /\ fIn \in SeqsUpTo(ItemFragments, MaxFragments)
                \cup {ItemsOf(texts) : texts \in SeqsUpTo(ItemTexts, MaxItems)}
    /\ fOut = <<>>

ApplyConvertAppealToPlainText ==
    /\ fpc = "convertAppealToPlainText"
    /\ fOut' = convertAppealToPlainText(Flatten(fIn))
    /\ fpc' = "done"
    /\ UNCHANGED <<fIn, store, queryOutcome, concVars, pubVars, genVars>>

PlainTextNext == ApplyConvertAppealToPlainText

PlainTextSpec == PlainTextInit /\ [][PlainTextNext]_vars

\* the appeal is n >= 1 items "<li>text</li>"
IsItemList(fragments) ==
    /\ fragments # <<>>
    /\ \E texts \in SeqsUpTo(ItemTexts, MaxItems) : fragments = ItemsOf(texts)

\* the positions of s at which a line starts
LineStarts(s) ==
    IF s = <<>> THEN {} ELSE {1} \cup {i + 1 : i \in {j \in 1..Len(s) : s[j] = "\n"}}

-----------------------------------------------------------------------------
Protocols == {"http://", "https://"}
HasProtocol(url) == url # <<>> /\ Head(url) \in Protocols
\* no protocol prefix stands behind the first piece of the url
AtMostOneProtocol(url) == \A i \in 2..Len(url) : url[i] \notin Protocols

-----------------------------------------------------------------------------
\* The answer to a status poll is a failure of the poll itself
PollFailed(resp) ==
    \/ resp.kind \in {"transport_error", "cancelled", "read_error", "parse_error"}
    \/ resp.kind = "json" /\ resp.error

\* The last remote call of the run is a status poll
LastCallIsStatus == calls # <<>> /\ calls[Len(calls)].op = "status"

(* C28: a status poll that itself fails (transport error, unreadable or      *)
(* unparsable body, API error envelope) is not retried: the run has ended    *)
(* with posted=false, the failed poll is its last remote call and no publish *)
(* call was made, whatever is left of the 15-attempt budget.                 *)
C28_FailedPollEndsRun ==
    ((statusResp # NoResponse /\ PollFailed(statusResp))
        \/ (LastCallIsStatus /\ ~calls[Len(calls)].sent)) =>
        /\ pc = "done"
        /\ ~result.Posted
        /\ result.Error # <<>>
        /\ LastCallIsStatus
        /\ CountOp("publish") = 0

C28_Witness ==
    /\ pc = "done"
    /\ statusResp # NoResponse
    /\ statusResp.kind = "json"
    /\ statusResp.error
    /\ attempt = 1
    /\ attempt + 1 < maxPollAttempts
    /\ CountOp("status") = 2
    /\ ~result.Posted

-----------------------------------------------------------------------------
(* Several GenerateCompaniesHandler runs uploading to one bucket. Each run   *)
(* has its own slug; the bucket and the clock are shared.                    *)

UploadRunIDs == {"g1", "g2"}
\* Seconds the clock can advance while the runs are on
MaxClock == 2

\* The locals of a run that has not started; key: the key its PutObject wrote
\* (<<>>: none), replaced: an object was already stored under that key
NewUpload == [pc |-> "start", slug |-> <<>>, key |-> <<>>, replaced |-> FALSE]

UploadsInit ==
    /\ PubIdle
    /\ GenIdle
    /\ store = {}
    /\ queryOutcome = NoQuery
    /\ fpc = "idle"
    /\ fIn = <<>>
    /\ fOut = <<>>
    /\ runs = [r \in UploadRunIDs |-> NewUpload]
    /\ clock = 0
    /\ onceDone = FALSE
    /\ initLog = <<>>

UploadsFrame ==
    UNCHANGED <<pubVars, gpc, method, env, dbClient, companyData, slug, coverImageURL,
                chain, companyMap, insertOutcome, gcalls, response, aiErr, gctxDone,
                store, queryOutcome, fpc, fIn, fOut, onceDone, initLog>>

\* A second passes
Tick ==
    /\ clock < MaxClock
    /\ clock' = clock + 1
    /\ UNCHANGED <<runs, blobs>>
    /\ UploadsFrame

\* Run r up to the upload: the company is generated and slug := generateSlug(name)
UploadRunEnter(r) ==
    /\ runs[r].pc = "start"
    /\ \E name \in Names :
          runs' = [runs EXCEPT ![r].pc = "upload", ![r].slug = generateSlug(name)]
    /\ UNCHANGED <<clock, blobs>>
    /\ UploadsFrame

\* time.Now().Unix() as printed by %d
Now == ToString(clock)

\* uploader.UploadScreenshot(screenshotBytes, slug) of run r
UploadRunScreenshot(r) ==
    /\ runs[r].pc = "upload"
    /\ LET key == ScreenshotKey(runs[r].slug, Now) IN
          \/ /\ runs' = [runs EXCEPT ![r].pc = "done"]
             /\ UNCHANGED blobs
          \/ /\ blobs' = PutObject(blobs, key)
             /\ runs' = [runs EXCEPT ![r].pc = "done", ![r].key = key,
                                     ![r].replaced = (key \in blobs)]
    /\ UNCHANGED clock
    /\ UploadsFrame

UploadsNext ==
    \/ Tick
    \/ \E r \in UploadRunIDs : UploadRunEnter(r)
    \/ \E r \in UploadRunIDs : UploadRunScreenshot(r)

UploadsSpec == UploadsInit /\ [][UploadsNext]_vars

(* C29: two orchestration runs, one after the other or interleaved, never    *)
(* upload their screenshots under the same storage key, and no upload        *)
(* replaces the object another run stored.                                   *)
C29_DistinctStorageKeys ==
    /\ \A r, q \in UploadRunIDs :
          (r # q /\ runs[r].key # <<>> /\ runs[q].key # <<>>) => runs[r].key # runs[q].key
    /\ \A r \in UploadRunIDs : ~runs[r].replaced

-----------------------------------------------------------------------------
(* Package database: the shared client and its once-guarded initialisation.  *)

\* InitSupabase calls made in one process
MaxInitCalls == 3

\* The fields of config.Config that InitSupabase reads
Configs ==
    [SupabaseURL : {"", "https://db.example"},
     SupabaseServiceRole : {"", "service-role-key"},
     SupabaseKey : {"", "anon-key"}]

\* The function given to once.Do: the client and the err it leaves behind.
\* newClientOK: supabase.NewClient returns a client and no error
onceBody(cfg, newClientOK) ==
    LET apiKey == IF cfg.SupabaseServiceRole = "" THEN cfg.SupabaseKey
                  ELSE cfg.SupabaseServiceRole
    IN  IF cfg.SupabaseURL = ""
        THEN [client |-> FALSE, err |-> "supabase URL not provided"]
        ELSE IF apiKey = ""
        THEN [client |-> FALSE, err |-> "supabase API key not provided"]
        ELSE IF ~newClientOK
        THEN [client |-> FALSE, err |-> "NewClient failed"]
        ELSE [client |-> TRUE, err |-> "nil"]

\* GetClient() is non-nil
GetClient == dbClient

SupabaseInit ==
    /\ PubIdle
    /\ GenIdle
    /\ AuxIdle

\* One call of InitSupabase(cfg): var err error; once.Do(...); return err
InitSupabase ==
    /\ Len(initLog) < MaxInitCalls
    /\ \E cfg \in Configs, newClientOK \in BOOLEAN :
          LET out == IF onceDone THEN [client |-> dbClient, err |-> "nil"]
                     ELSE onceBody(cfg, newClientOK)
          IN  /\ dbClient' = out.client
              /\ onceDone' = TRUE
              /\ initLog' = Append(initLog, [cfg |-> cfg, err |-> out.err,
                                             client |-> out.client])
    /\ UNCHANGED <<pubVars, gpc, method, env, companyData, slug, coverImageURL, chain,
                   companyMap, insertOutcome, gcalls, response, aiErr, gctxDone, blobs,
                   store, queryOutcome, fpc, fIn, fOut, runs, clock>>

SupabaseNext == InitSupabase

SupabaseSpec == SupabaseInit /\ [][SupabaseNext]_vars

(* C30: after any sequence of InitSupabase calls, a call returns a nil error *)
(* only if the shared store client is initialised: whenever InitSupabase     *)
(* has returned nil, GetClient() is non-nil, also on calls that follow a     *)
(* first call that failed.                                                   *)
C30_NilOnlyIfInitialised ==
    \A i \in 1..Len(initLog) : initLog[i].err = "nil" => (initLog[i].client /\ GetClient)

====
